---- MODULE Spec2Model ----
(***************************************************************************)
(* nat-failover: the detection loop (src/src/main.rs) and the Alertmanager *)
(* alert (src/src/alerts.rs).                                              *)
(*                                                                         *)
(* The loop of DetectionLoop::run is one sequential async task.  Its       *)
(* position (pc) is the await point it is suspended at:                    *)
(*   "ping_default"    main.rs:104  future_default.await                   *)
(*   "ping_test_from"  main.rs:107  future_test_from.await                 *)
(*   "post_trigger"    alerts.rs:42 post_alert(..).await inside trigger    *)
(*   "post_resolve"    alerts.rs:53 post_alert(..).await inside resolve    *)
(*   "sleep"           main.rs:149  sleep(interval).await                  *)
(*   "panicked"        alerts.rs:76 unwrap() on an Err                     *)
(* Everything between two await points is one step.                        *)
(***************************************************************************)
EXTENDS Integers, Sequences, FiniteSets, TLC

\* ------------------------------------------------------------- bounds
\* Number of loop iterations explored.
MaxCycles == 3
\* Largest value of --retries explored (0 .. MaxRetries).
MaxRetries == 2
\* Number of changes made to the rule by somebody else than the program.
MaxExt == 2
\* Number of direct calls of the two firewall functions in SpecFw.
MaxFwCalls == 3

\* ------------------------------------------------------------- values
\* Option::None of starts_at / ends_at; Some(t) is the timestamp t >= 0.
None == -1

\* One item of the stream netdiag's Pinger::ping yields:
\*   Ok(Some(rtt)) = "reply", Ok(None) = "timeout", Err(e) = "error".
Item == {"reply", "timeout", "error"}

\* Outcome of the HTTP POST in post_alert.
PostOutcome == {"send_err", "status_err", "ok", "body_err"}

VARIABLES
    pc,          \* await point of run
    cycle,       \* iterations started so far - 1; also the reading of Utc::now()
    retries,     \* args.retries
    debug_on,    \* whether the log level lets debug! evaluate its arguments
    nat_switch,  \* run's local nat_switch
    starts_at,   \* alert.starts_at
    ends_at,     \* alert.ends_at
    rule,        \* whether the MASQUERADE rule is in nat/POSTROUTING
    vDefault,    \* this iteration's result of future_default: "none"/"ok"/"err"
    vTest,       \* this iteration's result of future_test_from
    fwRes,       \* this iteration's result of inject_/cleanup_nat_masquerade
    nExists,     \* calls of iptables_client.exists so far
    nInsert,     \* calls of iptables_client.insert_unique so far
    nDelete,     \* calls of iptables_client.delete so far
    nOpened,     \* post_alert calls made by trigger so far
    nClosed,     \* post_alert calls made by resolve so far
    lastPost,    \* body and outcome of the last post_alert call
    reconciled,  \* inject_/cleanup_nat_masquerade returned Ok at least once
    nExt,        \* changes of the rule made outside the program so far
    fwLog,       \* the last two calls of the firewall functions (SpecFw)
    pItems,      \* the stream given to the last call of ping (SpecPing)
    pRes         \* what that call returned (SpecPing)

vars == <<pc, cycle, retries, debug_on, nat_switch, starts_at, ends_at, rule,
          vDefault, vTest, fwRes, nExists, nInsert, nDelete, nOpened, nClosed,
          lastPost, reconciled, nExt, fwLog, pItems, pRes>>

\* ------------------------------------------------------------- ping
\* Ping.count as DetectionLoop::new sets it.
ping_count(r) == IF r > 1 THEN r ELSE 1

\* The streams the pinger may yield for a request of `count` probes.
RECURSIVE SeqsUpTo(_, _)
SeqsUpTo(S, n) ==
    IF n = 0 THEN {<<>>}
    ELSE LET shorter == SeqsUpTo(S, n - 1)
         IN  shorter \cup {Append(s, x) : s \in {t \in shorter : Len(t) = n - 1}, x \in S}

Streams(count) == SeqsUpTo(Item, count)

\* Variant: the threshold test written `errors > retries`.
RECURSIVE ping_loop_off_by_one(_, _, _, _)
ping_loop_off_by_one(r, items, i, errors) ==
    IF i > Len(items) THEN [ok |-> TRUE, consumed |-> Len(items)]
    ELSE IF items[i] = "error" THEN [ok |-> FALSE, consumed |-> i]
    ELSE IF items[i] = "reply" THEN [ok |-> TRUE, consumed |-> i]
    ELSE IF errors + 1 > r THEN [ok |-> FALSE, consumed |-> i]
    ELSE ping_loop_off_by_one(r, items, i + 1, errors + 1)

\* Variant: a stream Err counted as one more failed attempt instead of `?`.
RECURSIVE ping_loop_counts_error(_, _, _, _)
ping_loop_counts_error(r, items, i, errors) ==
    IF i > Len(items) THEN [ok |-> TRUE, consumed |-> Len(items)]
    ELSE IF items[i] = "reply" THEN [ok |-> TRUE, consumed |-> i]
    ELSE IF errors + 1 >= r THEN [ok |-> FALSE, consumed |-> i]
    ELSE ping_loop_counts_error(r, items, i + 1, errors + 1)

\* The while-let loop of ping from item i on, with `errors` timeouts counted.
RECURSIVE ping_loop(_, _, _, _)
ping_loop(r, items, i, errors) ==
    IF i > Len(items) THEN [ok |-> TRUE, consumed |-> Len(items)]
    ELSE IF items[i] = "error" THEN [ok |-> FALSE, consumed |-> i]
    ELSE IF items[i] = "reply" THEN [ok |-> TRUE, consumed |-> i]
    ELSE IF errors + 1 >= r THEN [ok |-> FALSE, consumed |-> i]
    ELSE ping_loop(r, items, i + 1, errors + 1)

ping(r, items) == ping_loop(r, items, 1, 0)

Verdict(r, items) == IF ping(r, items).ok THEN "ok" ELSE "err"

NoPing == [called |-> FALSE, ok |-> FALSE, consumed |-> 0]

\* ------------------------------------------------------------- firewall
\* exOk / muOk: whether the backend's exists / insert_unique or delete
\* succeeds.  A failed insert or delete leaves the chain as it was.
\* Variant: insert without looking at what exists() returned.
inject_without_check(r, exOk, muOk) ==
    IF ~exOk THEN [ok |-> FALSE, rule |-> r, exists |-> 1, insert |-> 0, delete |-> 0]
    ELSE IF muOk THEN [ok |-> TRUE, rule |-> TRUE, exists |-> 1, insert |-> 1, delete |-> 0]
    ELSE [ok |-> FALSE, rule |-> r, exists |-> 1, insert |-> 1, delete |-> 0]

\* Variant: report Ok although insert_unique failed.
inject_swallows_error(r, exOk, muOk) ==
    IF ~exOk THEN [ok |-> FALSE, rule |-> r, exists |-> 1, insert |-> 0, delete |-> 0]
    ELSE IF ~r THEN
        IF muOk THEN [ok |-> TRUE, rule |-> TRUE, exists |-> 1, insert |-> 1, delete |-> 0]
        ELSE [ok |-> TRUE, rule |-> r, exists |-> 1, insert |-> 1, delete |-> 0]
    ELSE [ok |-> TRUE, rule |-> r, exists |-> 1, insert |-> 0, delete |-> 0]

inject_nat_masquerade(r, exOk, muOk) ==
    IF ~exOk THEN [ok |-> FALSE, rule |-> r, exists |-> 1, insert |-> 0, delete |-> 0]
    ELSE IF ~r THEN
        IF muOk THEN [ok |-> TRUE, rule |-> TRUE, exists |-> 1, insert |-> 1, delete |-> 0]
        ELSE [ok |-> FALSE, rule |-> r, exists |-> 1, insert |-> 1, delete |-> 0]
    ELSE [ok |-> TRUE, rule |-> r, exists |-> 1, insert |-> 0, delete |-> 0]

\* Variant: report Ok although delete failed.
cleanup_swallows_error(r, exOk, muOk) ==
    IF ~exOk THEN [ok |-> FALSE, rule |-> r, exists |-> 1, insert |-> 0, delete |-> 0]
    ELSE IF r THEN
        IF muOk THEN [ok |-> TRUE, rule |-> FALSE, exists |-> 1, insert |-> 0, delete |-> 1]
        ELSE [ok |-> TRUE, rule |-> r, exists |-> 1, insert |-> 0, delete |-> 1]
    ELSE [ok |-> TRUE, rule |-> r, exists |-> 1, insert |-> 0, delete |-> 0]

cleanup_nat_masquerade(r, exOk, muOk) ==
    IF ~exOk THEN [ok |-> FALSE, rule |-> r, exists |-> 1, insert |-> 0, delete |-> 0]
    ELSE IF r THEN
        IF muOk THEN [ok |-> TRUE, rule |-> FALSE, exists |-> 1, insert |-> 0, delete |-> 1]
        ELSE [ok |-> FALSE, rule |-> r, exists |-> 1, insert |-> 0, delete |-> 1]
    ELSE [ok |-> TRUE, rule |-> r, exists |-> 1, insert |-> 0, delete |-> 0]

\* The call counters stop counting at one call per loop iteration explored.
Count(n, k) == IF n + k > MaxCycles + 1 THEN MaxCycles + 1 ELSE n + k

\* The effect of one firewall call on the chain and on the call counters.
Firewall(res) ==
    /\ rule' = res.rule
    /\ nExists' = Count(nExists, res.exists)
    /\ nInsert' = Count(nInsert, res.insert)
    /\ nDelete' = Count(nDelete, res.delete)

\* ------------------------------------------------------------- alert
\* Utc::now(): one reading per loop iteration.
Now == cycle

\* Variant: trigger that stamps starts_at on every call.
trigger_overwrites_starts_at(s, now) == now

\* Variant: trigger that never records the start.
trigger_keeps_starts_at(s, now) == s

\* Alert::trigger, up to its await: the new starts_at.
trigger_starts_at(s, now) == IF s = None THEN now ELSE s

\* Variant: trigger that posts only on the closed -> open edge.
trigger_posts_on_edge(s) == s = None

\* Alert::trigger always goes on to post_alert.
trigger_posts(s) == TRUE

\* Variant: resolve without its early return.
resolve_posts_always(s) == TRUE

\* Alert::resolve returns early, without posting, when starts_at is None.
resolve_posts(s) == s # None

\* post_alert: "panic" when text().await.unwrap() meets an Err, which it
\* evaluates only when debug! is enabled; "return" otherwise.
post_alert(outcome, dbg) ==
    IF outcome = "body_err" /\ dbg THEN "panic" ELSE "return"

NoPost == [kind |-> "none", starts_at |-> None, ends_at |-> None, outcome |-> "none"]

\* ------------------------------------------------------------- run
\* Variant: the switch starts off.
nat_switch_init_off == FALSE

\* let mut nat_switch = true;
nat_switch_init == TRUE

Init ==
    /\ pc = "ping_default"
    /\ cycle = 0
    /\ retries \in 0..MaxRetries
    /\ debug_on \in BOOLEAN
    /\ nat_switch = nat_switch_init
    /\ starts_at = None
    /\ ends_at = None
    /\ rule \in BOOLEAN
    /\ vDefault = "none"
    /\ vTest = "none"
    /\ fwRes = "none"
    /\ nExists = 0
    /\ nInsert = 0
    /\ nDelete = 0
    /\ nOpened = 0
    /\ nClosed = 0
    /\ lastPost = NoPost
    /\ reconciled = FALSE
    /\ nExt = 0
    /\ fwLog = <<>>
    /\ pItems = <<>>
    /\ pRes = NoPing

\* Variant: the WAN-degraded arm cleans the rule up.
RunDefaultErr_cleans_up ==
    /\ pc' = "sleep"
    /\ Firewall(cleanup_nat_masquerade(rule, TRUE, TRUE))
    /\ UNCHANGED <<nat_switch, starts_at, ends_at, vTest, fwRes, reconciled>>

\* The `_ => info!(..)` arm of `match future_default.await`.
RunDefaultErr ==
    /\ pc' = "sleep"
    /\ UNCHANGED <<nat_switch, starts_at, ends_at, rule, vTest, fwRes,
                   nExists, nInsert, nDelete, reconciled>>

\* Variant: the rule is injected as soon as the default ping is Ok, before
\* the policy ping is awaited.
RunDefaultOk_injects_early ==
    /\ pc' = "ping_test_from"
    /\ Firewall(inject_nat_masquerade(rule, TRUE, TRUE))
    /\ UNCHANGED <<nat_switch, starts_at, ends_at, vTest, fwRes, reconciled>>

\* The `Ok(_)` arm of `match future_default.await`, up to the next await.
RunDefaultOk ==
    /\ pc' = "ping_test_from"
    /\ UNCHANGED <<nat_switch, starts_at, ends_at, rule, vTest, fwRes,
                   nExists, nInsert, nDelete, reconciled>>

\* future_default.await completes.
AwaitDefault ==
    /\ pc = "ping_default"
    /\ \E items \in Streams(ping_count(retries)) :
          /\ vDefault' = Verdict(retries, items)
          /\ IF vDefault' = "ok" THEN RunDefaultOk ELSE RunDefaultErr
    /\ UNCHANGED <<cycle, retries, debug_on, nOpened, nClosed, lastPost, nExt, fwLog, pItems, pRes>>

\* Variant: the Err(_) arm sets the switch and triggers the alert whatever
\* inject_nat_masquerade returned.
RunTestErr_ignores_result(exOk, muOk) ==
    LET res == inject_nat_masquerade(rule, exOk, muOk) IN
    /\ Firewall(res)
    /\ fwRes' = IF res.ok THEN "ok" ELSE "err"
    /\ nat_switch' = TRUE
    /\ starts_at' = IF starts_at = None THEN Now ELSE starts_at
    /\ reconciled' = (reconciled \/ res.ok)
    /\ pc' = "post_trigger"
    /\ UNCHANGED ends_at

\* The `Err(_)` arm of `match future_test_from.await`.
RunTestErr(exOk, muOk) ==
    LET res == inject_nat_masquerade(rule, exOk, muOk) IN
    /\ Firewall(res)
    /\ fwRes' = IF res.ok THEN "ok" ELSE "err"
    /\ IF res.ok
       THEN /\ nat_switch' = TRUE
            /\ starts_at' = trigger_starts_at(starts_at, Now)
            /\ reconciled' = TRUE
            /\ pc' = IF trigger_posts(starts_at) THEN "post_trigger" ELSE "sleep"
       ELSE /\ UNCHANGED <<nat_switch, starts_at, reconciled>>
            /\ pc' = "sleep"
    /\ UNCHANGED ends_at

\* Variant: clean up on every cycle with both pings Ok.
needs_cleanup_always(sw) == TRUE

\* `if nat_switch` of the `_` arm of `match future_test_from.await`.
needs_cleanup(sw) == sw

\* Variant: the `_` arm turns the switch off whatever cleanup returned.
RunTestOk_switch_off_on_error(exOk, muOk) ==
    IF needs_cleanup(nat_switch)
    THEN LET res == cleanup_nat_masquerade(rule, exOk, muOk) IN
         /\ Firewall(res)
         /\ fwRes' = IF res.ok THEN "ok" ELSE "err"
         /\ nat_switch' = FALSE
         /\ reconciled' = (reconciled \/ res.ok)
         /\ IF res.ok /\ resolve_posts(starts_at)
            THEN /\ ends_at' = Now
                 /\ pc' = "post_resolve"
            ELSE /\ UNCHANGED ends_at
                 /\ pc' = "sleep"
         /\ UNCHANGED starts_at
    ELSE /\ pc' = "sleep"
         /\ UNCHANGED <<nat_switch, starts_at, ends_at, rule, fwRes,
                        nExists, nInsert, nDelete, reconciled>>

\* The `_` arm of `match future_test_from.await`.
RunTestOk(exOk, muOk) ==
    IF needs_cleanup(nat_switch)
    THEN LET res == cleanup_nat_masquerade(rule, exOk, muOk) IN
         /\ Firewall(res)
         /\ fwRes' = IF res.ok THEN "ok" ELSE "err"
         /\ IF res.ok
            THEN /\ nat_switch' = FALSE
                 /\ reconciled' = TRUE
                 /\ IF resolve_posts(starts_at)
                    THEN /\ ends_at' = Now
                         /\ pc' = "post_resolve"
                    ELSE /\ UNCHANGED ends_at
                         /\ pc' = "sleep"
                 /\ UNCHANGED starts_at
            ELSE /\ UNCHANGED <<nat_switch, starts_at, ends_at, reconciled>>
                 /\ pc' = "sleep"
    ELSE /\ pc' = "sleep"
         /\ UNCHANGED <<nat_switch, starts_at, ends_at, rule, fwRes,
                        nExists, nInsert, nDelete, reconciled>>

\* future_test_from.await completes.
AwaitTestFrom ==
    /\ pc = "ping_test_from"
    /\ \E items \in Streams(ping_count(retries)), exOk \in BOOLEAN, muOk \in BOOLEAN :
          /\ vTest' = Verdict(retries, items)
          /\ IF vTest' = "err" THEN RunTestErr(exOk, muOk) ELSE RunTestOk(exOk, muOk)
    /\ UNCHANGED <<cycle, retries, debug_on, vDefault, nOpened, nClosed, lastPost,
                   nExt, fwLog, pItems, pRes>>

\* Variant: resolve clears starts_at but leaves ends_at set.
PostAlert_keeps_ends_at ==
    /\ pc \in {"post_trigger", "post_resolve"}
    /\ \E outcome \in PostOutcome :
          /\ lastPost' = [kind |-> IF pc = "post_trigger" THEN "opened" ELSE "closed",
                          starts_at |-> starts_at, ends_at |-> ends_at,
                          outcome |-> outcome]
          /\ IF post_alert(outcome, debug_on) = "panic"
             THEN /\ pc' = "panicked"
                  /\ UNCHANGED <<starts_at, ends_at>>
             ELSE /\ pc' = "sleep"
                  /\ IF pc = "post_resolve"
                     THEN starts_at' = None /\ UNCHANGED ends_at
                     ELSE UNCHANGED <<starts_at, ends_at>>
    /\ nOpened' = IF pc = "post_trigger" THEN Count(nOpened, 1) ELSE nOpened
    /\ nClosed' = IF pc = "post_resolve" THEN Count(nClosed, 1) ELSE nClosed
    /\ UNCHANGED <<cycle, retries, debug_on, nat_switch, rule, vDefault, vTest, fwRes,
                   nExists, nInsert, nDelete, reconciled, nExt, fwLog, pItems, pRes>>

\* post_alert(..).await completes, and trigger or resolve runs to its end.
PostAlert ==
    /\ pc \in {"post_trigger", "post_resolve"}
    /\ \E outcome \in PostOutcome :
          /\ lastPost' = [kind |-> IF pc = "post_trigger" THEN "opened" ELSE "closed",
                          starts_at |-> starts_at, ends_at |-> ends_at,
                          outcome |-> outcome]
          /\ IF post_alert(outcome, debug_on) = "panic"
             THEN /\ pc' = "panicked"
                  /\ UNCHANGED <<starts_at, ends_at>>
             ELSE /\ pc' = "sleep"
                  /\ IF pc = "post_resolve"
                     THEN starts_at' = None /\ ends_at' = None
                     ELSE UNCHANGED <<starts_at, ends_at>>
    /\ nOpened' = IF pc = "post_trigger" THEN Count(nOpened, 1) ELSE nOpened
    /\ nClosed' = IF pc = "post_resolve" THEN Count(nClosed, 1) ELSE nClosed
    /\ UNCHANGED <<cycle, retries, debug_on, nat_switch, rule, vDefault, vTest, fwRes,
                   nExists, nInsert, nDelete, reconciled, nExt, fwLog, pItems, pRes>>

\* sleep(self.args.interval).await completes and the next iteration creates
\* its two futures.
Sleep ==
    /\ pc = "sleep"
    /\ cycle < MaxCycles
    /\ cycle' = cycle + 1
    /\ pc' = "ping_default"
    /\ vDefault' = "none"
    /\ vTest' = "none"
    /\ fwRes' = "none"
    /\ UNCHANGED <<retries, debug_on, nat_switch, starts_at, ends_at, rule,
                   nExists, nInsert, nDelete, nOpened, nClosed, lastPost,
                   reconciled, nExt, fwLog, pItems, pRes>>

\* Somebody else inserts or deletes the rule (an operator, another tool, a
\* firewall reload): the chain checked by exists() is shared with them.
External ==
    /\ pc # "panicked"
    /\ nExt < MaxExt
    /\ rule' = ~rule
    /\ nExt' = nExt + 1
    /\ fwLog' = <<>>
    /\ UNCHANGED <<pc, cycle, retries, debug_on, nat_switch, starts_at, ends_at,
                   vDefault, vTest, fwRes, nExists, nInsert, nDelete, nOpened,
                   nClosed, lastPost, reconciled, pItems, pRes>>

Next == AwaitDefault \/ AwaitTestFrom \/ PostAlert \/ Sleep \/ External

Spec == Init /\ [][Next]_vars

\* ------------------------------------------------------------- the loop
\* running for ever: after MaxCycles iterations the clock reading and the
\* call counters stay where they are and the loop goes on.
SleepForEver ==
    /\ pc = "sleep"
    /\ cycle' = IF cycle < MaxCycles THEN cycle + 1 ELSE cycle
    /\ pc' = "ping_default"
    /\ vDefault' = "none"
    /\ vTest' = "none"
    /\ fwRes' = "none"
    /\ UNCHANGED <<retries, debug_on, nat_switch, starts_at, ends_at, rule,
                   nExists, nInsert, nDelete, nOpened, nClosed, lastPost,
                   reconciled, nExt, fwLog, pItems, pRes>>

\* The call counters are not followed here: they start at their ceiling.
InitLive ==
    /\ pc = "ping_default"
    /\ cycle = 0
    /\ retries \in 0..MaxRetries
    /\ debug_on \in BOOLEAN
    /\ nat_switch = nat_switch_init
    /\ starts_at = None
    /\ ends_at = None
    /\ rule \in BOOLEAN
    /\ vDefault = "none"
    /\ vTest = "none"
    /\ fwRes = "none"
    /\ nExists = MaxCycles + 1
    /\ nInsert = MaxCycles + 1
    /\ nDelete = MaxCycles + 1
    /\ nOpened = MaxCycles + 1
    /\ nClosed = MaxCycles + 1
    /\ lastPost = NoPost
    /\ reconciled = FALSE
    /\ nExt = 0
    /\ fwLog = <<>>
    /\ pItems = <<>>
    /\ pRes = NoPing

NextLive == AwaitDefault \/ AwaitTestFrom \/ PostAlert \/ SleepForEver \/ External

\* Each await of the loop completes: a ping ends after at most count
\* timeouts, the POST has a 10 s timeout, the sleep is finite.
SpecLive ==
    /\ InitLive
    /\ [][NextLive]_vars
    /\ WF_vars(AwaitDefault)
    /\ WF_vars(AwaitTestFrom)
    /\ WF_vars(PostAlert)
    /\ WF_vars(SleepForEver)

\* ------------------------------------------------------------- the two
\* firewall functions called on their own, in any order, against a backend
\* whose calls may fail, with the rule also changed from outside.
FwTarget(fn) == fn = "inject"

FwCall(fn, exOk, muOk) ==
    LET res == IF fn = "inject" THEN inject_nat_masquerade(rule, exOk, muOk)
               ELSE cleanup_nat_masquerade(rule, exOk, muOk)
        mut == res.insert + res.delete
        call == [fn |-> fn, before |-> rule, ok |-> res.ok, mut |-> mut,
                 backend |-> exOk /\ (mut = 1 => muOk)]
    IN  /\ nExists < MaxFwCalls
        /\ Firewall(res)
        /\ fwLog' = IF Len(fwLog) = 2 THEN <<fwLog[2], call>> ELSE Append(fwLog, call)
        /\ UNCHANGED <<pc, cycle, retries, debug_on, nat_switch, starts_at, ends_at,
                       vDefault, vTest, fwRes, nOpened, nClosed, lastPost,
                       reconciled, nExt, pItems, pRes>>

CallInject == \E exOk \in BOOLEAN, muOk \in BOOLEAN : FwCall("inject", exOk, muOk)

CallCleanup == \E exOk \in BOOLEAN, muOk \in BOOLEAN : FwCall("cleanup", exOk, muOk)

NextFw == CallInject \/ CallCleanup \/ External

SpecFw == Init /\ [][NextFw]_vars

\* ------------------------------------------------------------- ping
\* called on its own, for every retries value and every stream: the pinger
\* is asked for ping_count items and may yield fewer, or one more.
PingStreams(r) == SeqsUpTo(Item, ping_count(r) + 1)

PingCall ==
    /\ \E items \in PingStreams(retries) :
          /\ pItems' = items
          /\ pRes' = [called |-> TRUE, ok |-> ping(retries, items).ok,
                      consumed |-> ping(retries, items).consumed]
    /\ UNCHANGED <<pc, cycle, retries, debug_on, nat_switch, starts_at, ends_at, rule,
                   vDefault, vTest, fwRes, nExists, nInsert, nDelete, nOpened,
                   nClosed, lastPost, reconciled, nExt, fwLog>>

NextPing == PingCall

SpecPing == Init /\ [][NextPing]_vars

\* ------------------------------------------------------------- claims
Open == starts_at # None

\* C1: a cycle whose default-path ping returns Err goes straight to the
\* sleep without any firewall call and without any alert POST, and leaves
\* nat_switch, starts_at, ends_at and the rule as they were.
C1_WanDegradedNoOp ==
    [][pc = "ping_default" /\ vDefault' = "err" =>
          /\ pc' = "sleep"
          /\ UNCHANGED <<nat_switch, starts_at, ends_at, rule, nExists, nInsert,
                         nDelete, nOpened, nClosed, lastPost>>]_vars

\* Two WAN-degraded cycles in a row after a fallback cycle: the incident of
\* cycle 0 is still open, the rule still there, one exists() call in all.
C1_Witness ==
    /\ pc = "sleep" /\ cycle = 2 /\ vDefault = "err"
    /\ starts_at = 0 /\ nat_switch /\ rule
    /\ nExists = 1 /\ nOpened = 1 /\ nExt = 0

\* C2: in a cycle with default ping Ok, policy ping Err and inject returning
\* Ok, the rule is present and the incident open once the firewall call is
\* done, whatever nat_switch, the incident and the rule were before; the
\* rest of the cycle (the alert POST) keeps the incident open and does not
\* touch the rule.
C2_FallbackDecision ==
    [][/\ (pc = "ping_test_from" /\ vTest' = "err" /\ fwRes' = "ok") =>
             /\ rule' /\ starts_at' # None /\ nat_switch'
             /\ pc' = "post_trigger"
       /\ (pc = "post_trigger" /\ pc' = "sleep") =>
             /\ starts_at' = starts_at /\ starts_at' # None
             /\ rule' = rule /\ nat_switch']_vars

\* The rule was inserted, removed from outside, and inserted again by a
\* later fallback cycle.
C2_Witness ==
    /\ pc = "sleep" /\ vDefault = "ok" /\ vTest = "err" /\ fwRes = "ok"
    /\ rule /\ Open
    /\ nInsert = 2 /\ nDelete = 0 /\ nExt = 1

\* C3 as claimed: every cycle with both pings Ok in which no firewall call
\* failed leaves the rule absent.
C3_DirectReconcilesEveryCycle ==
    [][(pc = "ping_test_from" /\ vTest' = "ok" /\ fwRes' # "err") => ~rule']_vars

\* C3 amended: a cycle with both pings Ok calls cleanup_nat_masquerade
\* exactly when nat_switch is true; then, cleanup returning Ok, the rule is
\* absent, nat_switch false and the incident closed at the end of the cycle.
\* With nat_switch false the cycle makes no firewall call: the incident is
\* closed, and the rule is left as it is.
C3_DirectReconcilesWhenSwitchOn ==
    [][/\ (pc = "ping_test_from" /\ vTest' = "ok") =>
             IF nat_switch
             THEN /\ nExists' = nExists + 1
                  /\ (fwRes' = "ok" =>
                        /\ ~rule' /\ ~nat_switch'
                        /\ nDelete' = nDelete + (IF rule THEN 1 ELSE 0)
                        /\ pc' = (IF Open THEN "post_resolve" ELSE "sleep"))
             ELSE /\ UNCHANGED <<rule, nExists, nInsert, nDelete, nat_switch, starts_at>>
                  /\ fwRes' = "none" /\ ~Open /\ pc' = "sleep"
       /\ (pc = "post_resolve" /\ pc' = "sleep") =>
             /\ starts_at' = None /\ rule' = rule /\ ~nat_switch']_vars

\* A cycle with both pings Ok that left an externally inserted rule alone.
C3_Witness ==
    /\ pc = "sleep" /\ vDefault = "ok" /\ vTest = "ok" /\ fwRes = "none"
    /\ rule /\ ~nat_switch /\ ~Open /\ nExt >= 1 /\ reconciled

\* C4: as long as no firewall reconciliation has succeeded since startup, a
\* cycle with both pings Ok calls cleanup_nat_masquerade, and when that
\* returns Ok the rule is absent (deleted if it was there), the cycle goes
\* to the sleep without an alert POST, and no closed event was ever posted.
C4_RestartConvergence ==
    [][(pc = "ping_test_from" /\ ~reconciled /\ vTest' = "ok") =>
          /\ fwRes' # "none"
          /\ (fwRes' = "ok" =>
                /\ ~rule'
                /\ nDelete' = nDelete + (IF rule THEN 1 ELSE 0)
                /\ pc' = "sleep"
                /\ nClosed' = 0 /\ nOpened' = 0 /\ starts_at' = None)]_vars

\* The rule was there at startup; after at least one WAN-degraded cycle the
\* first firewall call of the run deleted it, and nothing was posted.
C4_Witness ==
    /\ pc = "sleep" /\ cycle >= 1 /\ vDefault = "ok" /\ vTest = "ok" /\ fwRes = "ok"
    /\ nExt = 0 /\ nExists = 1 /\ nDelete = 1 /\ ~rule
    /\ nClosed = 0 /\ nOpened = 0 /\ ~nat_switch

\* C5 as claimed: trigger posts only when the incident was closed before
\* the call.
C5_TriggerPostsOnlyOnEdge ==
    [][(pc = "ping_test_from" /\ vTest' = "err" /\ fwRes' = "ok") =>
          (pc' = "post_trigger" <=> starts_at = None)]_vars

\* C5 amended: every cycle that computes NatFallback with inject returning
\* Ok posts one incident-opened event; starts_at is written only when the
\* incident was closed before the call, so all those events carry the
\* starts_at of the first of the cycles and no ends_at.
C5_TriggerPostsEveryCycle ==
    [][/\ (pc = "ping_test_from" /\ vTest' = "err" /\ fwRes' = "ok") =>
             /\ pc' = "post_trigger"
             /\ starts_at' = (IF starts_at = None THEN Now ELSE starts_at)
             /\ ends_at' = None
       /\ (pc = "post_trigger" /\ pc' # "post_trigger") =>
             /\ nOpened' = nOpened + 1 /\ nClosed' = nClosed
             /\ lastPost'.kind = "opened"
             /\ lastPost'.starts_at = starts_at /\ lastPost'.ends_at = None
       /\ (nOpened' # nOpened) => pc = "post_trigger"]_vars

\* Two fallback cycles in a row: two opened events, both with the starts_at
\* of cycle 0.
C5_Witness ==
    /\ pc = "sleep" /\ cycle = 1 /\ vTest = "err" /\ fwRes = "ok"
    /\ nOpened = 2 /\ nClosed = 0 /\ starts_at = 0
    /\ lastPost.kind = "opened" /\ lastPost.starts_at = 0

\* C6: a cycle with both pings Ok posts a closed event exactly when the
\* incident is open and cleanup returned Ok; that one POST closes the
\* incident, so later such cycles post nothing; a closed event is never
\* posted while the incident is closed.
C6_ExactlyOneClosed ==
    [][/\ (pc = "ping_test_from" /\ vTest' = "ok") =>
             (pc' = "post_resolve" <=> (Open /\ fwRes' = "ok"))
       /\ (pc = "ping_test_from" /\ vTest' # "ok") => pc' # "post_resolve"
       /\ (pc = "post_resolve" /\ pc' # "post_resolve") =>
             /\ nClosed' = nClosed + 1 /\ Open
             /\ lastPost'.kind = "closed"
             /\ (pc' = "sleep" => starts_at' = None)
       /\ (nClosed' # nClosed) => (pc = "post_resolve" /\ Open)
       /\ (pc # "post_resolve" /\ pc' = "post_resolve") => pc = "ping_test_from"]_vars

\* An incident was opened and closed with one closed event, and a further
\* cycle with both pings Ok has posted nothing more.
C6_Witness ==
    /\ pc = "sleep" /\ vDefault = "ok" /\ vTest = "ok" /\ fwRes = "none"
    /\ nOpened >= 1 /\ nClosed = 1 /\ ~Open /\ lastPost.kind = "closed"

\* C7 as claimed: at the end of every cycle without a firewall error the
\* incident is open iff nat_switch is true.
C7_AgreementFromFirstCycle ==
    (pc = "sleep" /\ fwRes # "err") => (Open <=> nat_switch)

\* C7 amended: at the end of every cycle, once a firewall reconciliation has
\* returned Ok, the incident is open iff nat_switch is true; until then
\* nat_switch is true and the incident closed.
C7_AgreementOnceReconciled ==
    pc = "sleep" =>
        IF reconciled THEN (Open <=> nat_switch) ELSE (nat_switch /\ ~Open)

\* A WAN-degraded cycle during an open incident, after a reconciliation.
C7_Witness ==
    /\ pc = "sleep" /\ reconciled /\ vDefault = "err" /\ Open /\ nat_switch
    /\ nClosed = 1

\* C8: when inject_ or cleanup_nat_masquerade returns Err, the cycle goes to
\* the sleep with nat_switch, starts_at and ends_at as before and without an
\* alert POST.
C8_FirewallErrorKeepsState ==
    [][(pc = "ping_test_from" /\ fwRes' = "err") =>
          /\ pc' = "sleep"
          /\ UNCHANGED <<nat_switch, starts_at, ends_at, nOpened, nClosed,
                         lastPost, reconciled>>]_vars

\* The rule's insertion failed in a cycle that computed NatFallback after
\* the switch had been turned off: still off, still no incident.
C8_Witness ==
    /\ pc = "sleep" /\ vTest = "err" /\ fwRes = "err"
    /\ ~nat_switch /\ ~Open /\ nOpened = 0 /\ nInsert = 1 /\ ~rule

\* C9 as claimed: no outcome inside a cycle stops the loop.
C9_NoErrorStopsLoop == pc # "panicked"

\* C10 as claimed: of two calls of the same firewall function in a row, with
\* no external change, the first mutates exactly when the rule was not in
\* the target state and the second never; a call made in the target state
\* returns Ok without mutating.
C10_IdempotentAlways ==
    /\ (Len(fwLog) = 2 /\ fwLog[1].fn = fwLog[2].fn) =>
          fwLog[1].mut + fwLog[2].mut =
             (IF fwLog[1].before = FwTarget(fwLog[1].fn) THEN 0 ELSE 1)
    /\ \A i \in 1..Len(fwLog) :
          fwLog[i].before = FwTarget(fwLog[i].fn) => (fwLog[i].ok /\ fwLog[i].mut = 0)

\* C10 amended: the same, provided the backend calls made by the two calls
\* succeed; a call made in the target state never mutates, and returns Ok
\* when its exists check succeeds.
C10_IdempotentWhenBackendOk ==
    /\ (Len(fwLog) = 2 /\ fwLog[1].fn = fwLog[2].fn
        /\ fwLog[1].backend /\ fwLog[2].backend) =>
          /\ fwLog[1].mut + fwLog[2].mut =
                (IF fwLog[1].before = FwTarget(fwLog[1].fn) THEN 0 ELSE 1)
          /\ fwLog[2].mut = 0
          /\ fwLog[1].ok /\ fwLog[2].ok
          /\ rule = FwTarget(fwLog[1].fn)
    /\ \A i \in 1..Len(fwLog) :
          fwLog[i].before = FwTarget(fwLog[i].fn) =>
             (fwLog[i].mut = 0 /\ (fwLog[i].backend => fwLog[i].ok))

\* cleanup_nat_masquerade twice in a row on a present rule: one delete.
C10_Witness ==
    /\ Len(fwLog) = 2 /\ fwLog[1].fn = "cleanup" /\ fwLog[2].fn = "cleanup"
    /\ fwLog[1].backend /\ fwLog[2].backend
    /\ fwLog[1].before /\ fwLog[1].mut = 1 /\ fwLog[2].mut = 0 /\ nDelete = 1

\* C11 as claimed: in every cycle both probes are run to a verdict, the
\* policy-path probe also when the default-path probe fails.
C11_BothProbesEveryCycle ==
    pc = "sleep" => (vDefault # "none" /\ vTest # "none")

AllTimeout(items, k) == \A j \in 1..k : items[j] = "timeout"

MinOf(S) == CHOOSE k \in S : \A j \in S : k <= j

\* C12: for a stream of replies and timeouts only, ping consumes at most
\* max(retries, 1) items; it returns Err exactly when some attempt times out
\* with only timeouts before it and brings their number to retries or more,
\* and it stops there; otherwise, when there is a reply, it returns Ok at
\* the first one and consumes nothing after it.
C12_VerdictReduction ==
    (pRes.called /\ \A j \in 1..Len(pItems) : pItems[j] # "error") =>
        LET exhausted == {k \in 1..Len(pItems) : AllTimeout(pItems, k) /\ k >= retries}
            replies == {k \in 1..Len(pItems) : pItems[k] = "reply"}
            attempts == IF retries > 1 THEN retries ELSE 1
        IN  /\ pRes.consumed <= attempts
            /\ ~pRes.ok <=> exhausted # {}
            /\ exhausted # {} => pRes.consumed = MinOf(exhausted)
            /\ (exhausted = {} /\ replies # {}) =>
                  (pRes.ok /\ pRes.consumed = MinOf(replies))

\* retries = 2: one timeout, then a reply on the second and last attempt.
C12_Witness ==
    /\ pRes.called /\ retries = 2 /\ pItems = <<"timeout", "reply", "timeout">>
    /\ pRes.ok /\ pRes.consumed = 2

\* C13 as claimed: a reply on an attempt that follows fewer than retries
\* failed attempts (timeouts or transport errors) gives Ok.
C13_ErrorCountsAsFailedAttempt ==
    pRes.called =>
        \A k \in 1..Len(pItems) :
            (/\ pItems[k] = "reply"
             /\ \A j \in 1..(k - 1) : pItems[j] \in {"timeout", "error"}
             /\ k - 1 < retries) => pRes.ok

\* C13 amended: a transport error on an attempt that ping reaches (only
\* timeouts before it, fewer than retries) makes ping return Err at that
\* attempt, whatever follows in the stream.
C13_ErrorEndsTheSequence ==
    pRes.called =>
        \A k \in 1..Len(pItems) :
            (/\ pItems[k] = "error"
             /\ AllTimeout(pItems, k - 1)
             /\ (k = 1 \/ k - 1 < retries)) => (~pRes.ok /\ pRes.consumed = k)

\* retries = 2: a transport error on the first attempt hides the reply the
\* second attempt would have got.
C13_Witness ==
    /\ pRes.called /\ retries = 2 /\ pItems = <<"error", "reply">>
    /\ ~pRes.ok /\ pRes.consumed = 1

\* C20 as claimed: ping returns Ok only if an attempt it made got a reply,
\* also for a stream that ends early or yields nothing.
C20_NoFalseReachable ==
    (pRes.called /\ pRes.ok) => \E k \in 1..pRes.consumed : pItems[k] = "reply"

\* C14: an event posted by trigger carries a start and no end timestamp, an
\* event posted by resolve carries both, and ends_at is set only while
\* resolve is posting (and stays so if that POST takes the process down):
\* it is empty at every cycle boundary and in every trigger.
C14_EventTimestamps ==
    /\ lastPost.kind = "opened" =>
          (lastPost.starts_at # None /\ lastPost.ends_at = None)
    /\ lastPost.kind = "closed" =>
          (lastPost.starts_at # None /\ lastPost.ends_at # None)
    /\ pc \notin {"post_resolve", "panicked"} => ends_at = None
    /\ (pc = "panicked" /\ lastPost.kind = "opened") => ends_at = None

\* The opened event of a second incident, posted after the first incident
\* was closed: it has no end timestamp.
C14_Witness ==
    /\ pc = "sleep" /\ nClosed = 1 /\ lastPost.kind = "opened"
    /\ lastPost.starts_at > 0 /\ lastPost.ends_at = None /\ ends_at = None

\* C15 as claimed: what trigger and resolve do when the POST is over does
\* not depend on how the POST went: the cycle goes to the sleep with the
\* firewall, nat_switch and the call counters untouched and with the
\* incident left open by trigger, closed by resolve.
C15_PostOutcomeChangesNothing ==
    [][(pc \in {"post_trigger", "post_resolve"} /\ pc' # pc) =>
          /\ pc' = "sleep"
          /\ starts_at' = (IF pc = "post_resolve" THEN None ELSE starts_at)
          /\ UNCHANGED <<nat_switch, rule, nExists, nInsert, nDelete>>]_vars

ProgramStateChanges ==
    \/ nat_switch' # nat_switch \/ starts_at' # starts_at \/ ends_at' # ends_at
    \/ nExists' # nExists \/ nInsert' # nInsert \/ nDelete' # nDelete
    \/ nOpened' # nOpened \/ nClosed' # nClosed \/ lastPost' # lastPost
    \/ (rule' # rule /\ nExt' = nExt)

\* C16: every firewall call, every change of nat_switch and of the alert
\* and every alert POST is made in a step after which both probes of the
\* cycle have a verdict, the default-path one Ok; while a probe is pending
\* the program changes nothing.
C16_MutationAfterBothProbes ==
    [][/\ ProgramStateChanges =>
             (vDefault' = "ok" /\ vTest' \in {"ok", "err"}
              /\ vDefault = "ok" /\ pc # "ping_default")
       /\ (pc \in {"ping_default", "ping_test_from"} /\ pc' = pc) =>
             ~ProgramStateChanges]_vars

\* The rule has just been inserted and the alert is being posted: both
\* probes of this cycle have returned.
C16_Witness ==
    /\ pc = "post_trigger" /\ cycle >= 1 /\ vDefault = "ok" /\ vTest = "err"
    /\ nExists = 1 /\ nInsert = 1 /\ rule /\ Open

\* C18: starts_at is written only by a trigger call made while it is empty
\* (with the time of that call) and cleared only when resolve, called while
\* it is set, has posted; every event posted carries the starts_at in
\* force, and the starts_at of a new incident is later than that of the
\* incident closed before it.
C18_StartEdgeTriggered ==
    [][/\ starts_at' # starts_at =>
             \/ /\ starts_at = None /\ pc = "ping_test_from"
                /\ vTest' = "err" /\ fwRes' = "ok" /\ starts_at' = Now
             \/ /\ starts_at # None /\ pc = "post_resolve" /\ starts_at' = None
       /\ lastPost' # lastPost =>
             (starts_at # None /\ lastPost'.starts_at = starts_at)
       /\ (starts_at = None /\ starts_at' # None /\ lastPost.kind = "closed") =>
             starts_at' > lastPost.starts_at]_vars

\* A second incident, opened in cycle 2 after the incident of cycle 0 was
\* closed: its opened event carries the new start.
C18_Witness ==
    /\ pc = "sleep" /\ cycle = 2 /\ nClosed = 1 /\ nOpened = 2
    /\ starts_at = 2 /\ lastPost.kind = "opened" /\ lastPost.starts_at = 2

\* C19: as long as nobody else has changed the rule, at every cycle
\* boundary the incident is open only if the rule is present, and
\* nat_switch is false only if the rule is absent and the incident closed.
C19_NeverAheadOfFirewall ==
    (nExt = 0 /\ pc \in {"sleep", "ping_default"}) =>
        /\ Open => rule
        /\ ~nat_switch => (~rule /\ ~Open)

\* The delete failed in a cycle with both pings Ok during an incident: the
\* rule is still there, the incident still open, the switch still on.
C19_Witness ==
    /\ nExt = 0 /\ pc = "sleep" /\ vTest = "ok" /\ fwRes = "err"
    /\ nDelete = 1 /\ rule /\ Open /\ nat_switch

\* The loop keeps iterating.
Cycling == []<>(pc = "ping_default")

\* From some cycle on every cycle computes NatFallback / Direct and no
\* firewall call fails.  (The rule is changed from outside MaxExt times at
\* most, so from some cycle on nobody changes it.)
SteadyFallback == <>[](vDefault # "err" /\ vTest # "ok" /\ fwRes # "err")

SteadyDirect == <>[](vDefault # "err" /\ vTest # "err" /\ fwRes # "err")

\* Every cycle that computes NatFallback calls inject_nat_masquerade, every
\* cycle that computes Direct with nat_switch on calls
\* cleanup_nat_masquerade, once, and a failed call leaves nat_switch as it
\* was, so the next such cycle makes the same call again.
RetryByRepetition ==
    [][/\ (pc = "ping_test_from" /\ vTest' = "err") => fwRes' # "none"
       /\ (pc = "ping_test_from" /\ vTest' = "ok" /\ nat_switch) => fwRes' # "none"
       /\ (pc = "ping_test_from" /\ fwRes' = "err") =>
             (nat_switch' = nat_switch /\ pc' = "sleep")
       /\ (pc # "ping_test_from") => fwRes' \in {fwRes, "none"}]_vars

====
